---------------------------- MODULE Spec2Model ----------------------------
(***************************************************************************)
(* Server side (UAS) dialog lifecycle of sipgo: DialogServer (the registry *)
(* of live dialogs) and DialogServerSession (one handle per INVITE), as    *)
(* written in dialog_server.go.                                            *)
(*                                                                         *)
(* Goroutines: the application drives a handle from one goroutine, which  *)
(* calls WriteResponse (through Respond), Bye and Close one after another; *)
(* the router goroutines run ReadAck and ReadBye for the requests of the   *)
(* peer, concurrently with the application and with each other.            *)
(*                                                                         *)
(* Every function is cut into steps at the accesses to memory another      *)
(* goroutine reads or writes (the registry sync.Map, the atomic state,     *)
(* Dialog.ID) and at its waits.  A program counter value "Lnnn" is the     *)
(* source line the goroutine executes next, "Dnnn" the deferred calls      *)
(* registered up to line nnn.  The router goroutines are alike, so the     *)
(* model keeps, for each place in ReadAck and ReadBye, how many of them    *)
(* are there.                                                              *)
(***************************************************************************)
EXTENDS Integers, Naturals, Sequences, FiniteSets, TLC

----------------------------------------------------------------------------
(* Bounds of the model *)

\* Number of distinct To tags a success response can carry.
NumTags == 2
\* Number of router goroutines: requests of the peer handled at the same time.
NumReaders == 1

\* Longest list of Record-Route headers an INVITE carries.
MaxRoutes == 3

\* The session handles ReadInvite can create.
Handles == {1}
Tags == 1..NumTags

----------------------------------------------------------------------------
(* sip package values *)

\* Zero value of atomic.Int32: the state of a fresh Dialog.
DialogStateInit == 0
DialogStateEstablished == 1
DialogStateConfirmed == 2
DialogStateEnded == 3
DialogStates == {DialogStateInit, DialogStateEstablished,
                 DialogStateConfirmed, DialogStateEnded}

StatusRinging == 180
StatusOK == 200
StatusBusyHere == 486

NoTag == 0
\* Dialog.ID of a handle that never computed one: the empty string.
NoID == <<>>
\* nil *sip.Response
NoResponse == [StatusCode |-> 0, callID |-> "", fromTag |-> "", toTag |-> NoTag]
\* A string read while it is written: the pointer of one value with the
\* length of the other.  It is the key of no registry entry.
TornID == <<"torn">>
\* No BYE request built.
NoBye == [callID |-> "", fromTag |-> NoTag, toTag |-> "", route |-> <<>>]
\* No handle: nil *DialogServerSession, or an absent key of the sync.Map.
NoSession == 0
\* The Call-ID and From tag of the INVITE; the peer chooses them.
CallID == "c1"
FromTag == "f1"

\* sip.MakeDialogID joins its three arguments with a separator.
MakeDialogID(callID, innerID, externalID) == <<callID, innerID, externalID>>

DialogIDs == {MakeDialogID(CallID, t, FromTag) : t \in Tags}

\* The values of Record-Route headers: the proxies on the path.
Routes == {"R1", "R2", "R3"}
\* The lists of Record-Route headers of at most n entries.
RecordRoutes(n) == UNION {[1..k -> Routes] : k \in 0..n}
\* The Record-Route headers of the INVITE that came through two proxies.
TwoProxies == <<"R1", "R2">>

\* The INVITE requests ReadInvite is called with.
InviteRequests == [callID : {CallID}, fromTag : {FromTag}, contact : BOOLEAN,
                   recordRoute : {TwoProxies}]
NoRequest == [callID |-> "", fromTag |-> "", contact |-> FALSE, recordRoute |-> <<>>]

\* The responses WriteResponse is called with, made from the INVITE: its
\* Call-ID and From tag, and a To tag or none.  WriteResponse reads the
\* status class of each, and the tags of a success response only.
Responses ==
    [StatusCode : {StatusRinging, StatusBusyHere}, callID : {CallID},
     fromTag : {FromTag}, toTag : {NoTag}]
    \cup [StatusCode : {StatusOK}, callID : {CallID},
          fromTag : {FromTag}, toTag : Tags \cup {NoTag}]

\* The in-dialog requests (ACK, BYE) the routing entry points are called with.
DialogRequests == [callID : {CallID}, fromTag : {FromTag}, toTag : Tags \cup {NoTag}]

IsSuccess(res) == res.StatusCode >= 200 /\ res.StatusCode < 300
IsProvisional(res) == res.StatusCode >= 100 /\ res.StatusCode < 200

\* sip.MakeDialogIDFromResponse: fails when a tag is missing.
DialogIDFromResponseOK(res) == res.toTag # NoTag
MakeDialogIDFromResponse(res) == MakeDialogID(res.callID, res.toTag, res.fromTag)

\* sip.MakeDialogIDFromRequest: fails when a tag is missing.
DialogIDFromRequestOK(req) == req.toTag # NoTag
MakeDialogIDFromRequest(req) == MakeDialogID(req.callID, req.toTag, req.fromTag)

----------------------------------------------------------------------------
(* State *)

VARIABLES
    dialogs,        \* DialogServer.dialogs: identity -> handle, NoSession if absent
    InviteRequest,  \* Dialog.InviteRequest of each handle; NoRequest: not created
    InviteResponse, \* Dialog.InviteResponse
    ID,             \* Dialog.ID
    state,          \* Dialog.state
    txCancels,      \* inviteTx.Cancels() holds a CANCEL request
    txDone,         \* inviteTx.Done() is closed
    txTerminated,   \* calls of inviteTx.Terminate(): 0, 1, or 2 for two and more
    cancelled,      \* Dialog.cancel was called: Dialog.ctx is done
    crashed         \* a goroutine panicked: the process is gone

VARIABLES
    pc,             \* application goroutine of each handle: where it is
    byeCtxDone,     \* Bye: the caller's context is cancelled
    byeTx,          \* Bye: cli.TransactionRequest returned a transaction
    byeRet,         \* Bye: the error it returns once its deferred calls ran
    bye,            \* Bye: the request newByeRequestUAS built, NoBye before
    rd              \* router goroutines: how many are at each place, per
                    \* handle dt that loadDialog returned to them

\* Recording variables: what was put on the wire, what was deleted.
VARIABLES
    sent2xx,        \* identity of the last success response sent with a nil
                    \* error, NoID if there is none
    deleted,        \* identities Delete was called for on behalf of the handle
                    \* since the handle was last stored under them
    byeFound        \* identities for which ReadBye found the handle, since
                    \* the registry entry under them was made

dialogVars == <<dialogs, InviteRequest, InviteResponse, ID, state>>
txVars == <<txCancels, txDone, txTerminated>>
appVars == <<pc, byeCtxDone, byeTx, byeRet, bye>>
recVars == <<sent2xx, deleted, byeFound>>
vars == <<dialogVars, txVars, cancelled, crashed, appVars, rd, recVars>>

\* The places of a router goroutine that found a handle: ReadAck before
\* line 84; ReadBye before lines 113 and 118, before its deferred
\* Terminate (line 111) and before its deferred Close (line 110), with the
\* error it is going to return.
RdL84 == <<"L84", "none">>
RdL113 == <<"L113", "none">>
RdL118 == <<"L118", "none">>
RdD111Err == <<"D111", "respondErr">>
RdD111Nil == <<"D111", "nil">>
RdD110Err == <<"D110", "respondErr">>
RdD110Nil == <<"D110", "nil">>
RdPlaces == {RdL84, RdL113, RdL118, RdD111Err, RdD111Nil, RdD110Err, RdD110Nil}

RECURSIVE Sum(_, _)
Sum(f, S) == IF S = {} THEN 0
             ELSE LET x == CHOOSE y \in S : TRUE IN f[x] + Sum(f, S \ {x})

\* The router goroutines that are inside ReadAck or ReadBye.
Busy == Sum([h \in Handles |-> Sum(rd[h], RdPlaces)], Handles)

Enter(h, to) == [rd EXCEPT ![h][to] = @ + 1]
Leave(h, from) == [rd EXCEPT ![h][from] = @ - 1]
Move(h, from, to) == [rd EXCEPT ![h][from] = @ - 1, ![h][to] = @ + 1]

\* NewDialogServer: an empty registry.  No handle exists yet.
Init ==
    /\ dialogs = [id \in DialogIDs |-> NoSession]
    /\ InviteRequest = [h \in Handles |-> NoRequest]
    /\ InviteResponse = [h \in Handles |-> NoResponse]
    /\ ID = [h \in Handles |-> NoID]
    /\ state = [h \in Handles |-> DialogStateInit]
    /\ txCancels = [h \in Handles |-> FALSE]
    /\ txDone = [h \in Handles |-> FALSE]
    /\ txTerminated = [h \in Handles |-> 0]
    /\ cancelled = [h \in Handles |-> FALSE]
    /\ crashed = FALSE
    /\ pc = [h \in Handles |-> "idle"]
    /\ byeCtxDone = [h \in Handles |-> FALSE]
    /\ byeTx = [h \in Handles |-> FALSE]
    /\ byeRet = [h \in Handles |-> "none"]
    /\ bye = [h \in Handles |-> NoBye]
    /\ rd = [h \in Handles |-> [r \in RdPlaces |-> 0]]
    /\ sent2xx = [h \in Handles |-> NoID]
    /\ deleted = [h \in Handles |-> {}]
    /\ byeFound = [h \in Handles |-> {}]

Created(h) == InviteRequest[h] # NoRequest

----------------------------------------------------------------------------
(* Shared-memory primitives *)

\* sync.Map.Load through loadDialog: nil when the key is absent.
loadDialog(id) == IF id \in DOMAIN dialogs THEN dialogs[id] ELSE NoSession

\* sync.Map.Store
Store(id, h) == [dialogs EXCEPT ![id] = h]

\* sync.Map.Delete: deleting an absent key (the empty ID too) changes nothing.
Delete(id) == IF id \in DOMAIN dialogs THEN [dialogs EXCEPT ![id] = NoSession] ELSE dialogs

\* Dialog.setState: an unconditional atomic store.
setState(h, s) == [state EXCEPT ![h] = s]

\* sip.ServerTransaction.Terminate closes the transaction's done channel;
\* a second call finds it closed.
Terminate(h) == [txDone EXCEPT ![h] = TRUE]

\* Recording of a call of inviteTx.Terminate().
Terminated(h) == [txTerminated EXCEPT ![h] = IF @ < 2 THEN @ + 1 ELSE 2]

\* Recording of a ReadBye that found the handle h under the identity id.
Found(h, id) == [byeFound EXCEPT ![h] = @ \cup {id}]

\* The entry under ID[h] is deleted: what ReadBye found under it before
\* is history of an entry that is gone.
Unfound(h) == [byeFound EXCEPT ![h] = @ \ {ID[h]}]

\* Recording of a Delete(ID[h]) by the goroutine that holds h.
Deleted(h) == [deleted EXCEPT ![h] = @ \cup ({ID[h]} \cap DialogIDs)]

----------------------------------------------------------------------------
(* DialogServer.ReadInvite *)

\* A request without Contact is refused and no handle is made.  Otherwise
\* the handle h is returned: state zero, no identity, not in the registry,
\* with a fresh context whose cancel function is kept in Dialog.cancel.
ReadInvite(h, req) ==
    /\ ~crashed
    /\ ~Created(h)
    /\ InviteRequest' = IF req.contact THEN [InviteRequest EXCEPT ![h] = req]
                        ELSE InviteRequest
    /\ UNCHANGED <<dialogs, InviteResponse, ID, state>>
    /\ UNCHANGED <<txVars, crashed, appVars, rd, recVars>>
    /\ cancelled' = [cancelled EXCEPT ![h] = FALSE]

----------------------------------------------------------------------------
(* DialogServerSession.WriteResponse, reached through Respond/RespondSDP too *)

\* WriteResponseCanceled ending the dialog when it sees the CANCEL.
WriteResponseCanceledEnds(h, res) ==
    /\ ~crashed
    /\ Created(h)
    /\ pc[h] = "idle"
    /\ txCancels[h]
    /\ InviteResponse' = [InviteResponse EXCEPT ![h] = res]
    /\ txCancels' = [txCancels EXCEPT ![h] = FALSE]
    /\ state' = setState(h, DialogStateEnded)
    /\ UNCHANGED <<dialogs, InviteRequest, ID>>
    /\ UNCHANGED <<txDone, txTerminated, crashed, appVars, rd, recVars>>
    /\ UNCHANGED cancelled

\* Lines 166-176: the response is stored on the dialog, then the
\* transaction is polled (a select picks any ready case).  A CANCEL taken
\* from the channel is answered 200 and ErrDialogCanceled returned.
WriteResponseCanceled(h, res) ==
    /\ ~crashed
    /\ Created(h)
    /\ pc[h] = "idle"
    /\ txCancels[h]
    /\ InviteResponse' = [InviteResponse EXCEPT ![h] = res]
    /\ txCancels' = [txCancels EXCEPT ![h] = FALSE]
    /\ UNCHANGED <<dialogs, InviteRequest, ID, state>>
    /\ UNCHANGED <<txDone, txTerminated, crashed, appVars, rd, recVars>>
    /\ UNCHANGED cancelled

\* Lines 166-179: the transaction is done, its error is returned.
WriteResponseTxDone(h, res) ==
    /\ ~crashed
    /\ Created(h)
    /\ pc[h] = "idle"
    /\ txDone[h]
    /\ InviteResponse' = [InviteResponse EXCEPT ![h] = res]
    /\ UNCHANGED <<dialogs, InviteRequest, ID, state>>
    /\ UNCHANGED <<txVars, crashed, appVars, rd, recVars>>
    /\ UNCHANGED cancelled

\* WriteResponseProvisional taking a provisional response for one that
\* creates the dialog.
WriteResponseProvisionalEstablishes(h, res) ==
    /\ ~crashed
    /\ Created(h)
    /\ pc[h] = "idle"
    /\ ~txCancels[h]
    /\ ~txDone[h]
    /\ IsProvisional(res)
    /\ InviteResponse' = [InviteResponse EXCEPT ![h] = res]
    /\ state' = setState(h, DialogStateEstablished)
    /\ UNCHANGED <<dialogs, InviteRequest, ID>>
    /\ UNCHANGED <<txVars, crashed, appVars, rd, recVars>>
    /\ UNCHANGED cancelled

\* Lines 166-186, the default case of the select: a provisional response
\* is sent, and the result of the send returned.
WriteResponseProvisional(h, res) ==
    /\ ~crashed
    /\ Created(h)
    /\ pc[h] = "idle"
    /\ ~txCancels[h]
    /\ ~txDone[h]
    /\ IsProvisional(res)
    /\ InviteResponse' = [InviteResponse EXCEPT ![h] = res]
    /\ UNCHANGED <<dialogs, InviteRequest, ID, state>>
    /\ UNCHANGED <<txVars, crashed, appVars, rd, recVars>>
    /\ UNCHANGED cancelled

\* Lines 166-190, the default case of the select: for a final failure
\* response the send of line 190 begins.
WriteResponseFailure(h, res) ==
    /\ ~crashed
    /\ Created(h)
    /\ pc[h] = "idle"
    /\ ~txCancels[h]
    /\ ~txDone[h]
    /\ ~IsSuccess(res)
    /\ ~IsProvisional(res)
    /\ InviteResponse' = [InviteResponse EXCEPT ![h] = res]
    /\ pc' = [pc EXCEPT ![h] = "L190"]
    /\ UNCHANGED <<dialogs, InviteRequest, ID, state>>
    /\ UNCHANGED <<txVars, crashed, byeCtxDone, byeTx, byeRet, bye, rd, recVars>>
    /\ UNCHANGED cancelled

\* Lines 190-194: the send of the failure response ends.  If it succeeded
\* the dialog is Ended, whatever happened to the transaction meanwhile;
\* if not the error is returned.
WriteResponseFailureSent(h) ==
    /\ ~crashed
    /\ pc[h] = "L190"
    /\ \/ state' = setState(h, DialogStateEnded)
       \/ UNCHANGED state
    /\ pc' = [pc EXCEPT ![h] = "idle"]
    /\ UNCHANGED <<dialogs, InviteRequest, InviteResponse, ID>>
    /\ UNCHANGED <<txVars, crashed, byeCtxDone, byeTx, byeRet, bye, rd, recVars>>
    /\ UNCHANGED cancelled

\* Lines 166-200, the default case of the select: for a success response
\* the identity is computed; a response without tag makes the call return.
WriteResponseSuccess(h, res) ==
    /\ ~crashed
    /\ Created(h)
    /\ pc[h] = "idle"
    /\ ~txCancels[h]
    /\ ~txDone[h]
    /\ IsSuccess(res)
    /\ InviteResponse' = [InviteResponse EXCEPT ![h] = res]
    /\ IF DialogIDFromResponseOK(res)
       THEN pc' = [pc EXCEPT ![h] = "L202"]
       ELSE UNCHANGED pc
    /\ UNCHANGED <<dialogs, InviteRequest, ID, state>>
    /\ UNCHANGED <<txVars, crashed, byeCtxDone, byeTx, byeRet, bye, rd, recVars>>
    /\ UNCHANGED cancelled

\* Line 202: the identity computed from the response, which is
\* Dialog.InviteResponse since line 170, is assigned to Dialog.ID.
WriteResponseID(h) ==
    /\ ~crashed
    /\ pc[h] = "L202"
    /\ ID' = [ID EXCEPT ![h] = MakeDialogIDFromResponse(InviteResponse[h])]
    /\ pc' = [pc EXCEPT ![h] = "L205"]
    /\ UNCHANGED <<dialogs, InviteRequest, InviteResponse, state>>
    /\ UNCHANGED <<txVars, crashed, byeCtxDone, byeTx, byeRet, bye, rd, recVars>>
    /\ UNCHANGED cancelled

\* WriteResponseStore with the store left for after the send.
WriteResponseStoreLate(h) ==
    /\ ~crashed
    /\ pc[h] = "L205"
    /\ pc' = [pc EXCEPT ![h] = "L206"]
    /\ UNCHANGED <<dialogVars, txVars, crashed, byeCtxDone, byeTx, byeRet, bye, rd, recVars>>
    /\ UNCHANGED cancelled

\* Line 205: the handle is stored in the registry under the identity.
WriteResponseStore(h) ==
    /\ ~crashed
    /\ pc[h] = "L205"
    /\ dialogs' = Store(ID[h], h)
    /\ deleted' = [deleted EXCEPT ![h] = @ \ {ID[h]}]
    /\ pc' = [pc EXCEPT ![h] = "L206"]
    /\ UNCHANGED <<InviteRequest, InviteResponse, ID, state>>
    /\ UNCHANGED <<txVars, crashed, byeCtxDone, byeTx, byeRet, bye, rd, sent2xx, byeFound>>
    /\ UNCHANGED cancelled

\* Line 206; the send of line 208 begins.
WriteResponseEstablished(h) ==
    /\ ~crashed
    /\ pc[h] = "L206"
    /\ state' = setState(h, DialogStateEstablished)
    /\ pc' = [pc EXCEPT ![h] = "L208"]
    /\ UNCHANGED <<dialogs, InviteRequest, InviteResponse, ID>>
    /\ UNCHANGED <<txVars, crashed, byeCtxDone, byeTx, byeRet, bye, rd, recVars>>
    /\ UNCHANGED cancelled

\* Line 208: the send of the success response ends, with or without error.
WriteResponseSend(h) ==
    /\ ~crashed
    /\ pc[h] = "L208"
    /\ \/ /\ sent2xx' = [sent2xx EXCEPT ![h] = ID[h]]
          /\ pc' = [pc EXCEPT ![h] = "idle"]
       \/ /\ pc' = [pc EXCEPT ![h] = "L210"]
          /\ UNCHANGED sent2xx
    /\ UNCHANGED <<dialogVars, txVars, crashed, byeCtxDone, byeTx, byeRet, bye, rd, deleted, byeFound>>
    /\ UNCHANGED cancelled

\* Lines 210-211: the send failed, the registry entry is deleted again.
WriteResponseDelete(h) ==
    /\ ~crashed
    /\ pc[h] = "L210"
    /\ dialogs' = Delete(ID[h])
    /\ deleted' = Deleted(h)
    /\ byeFound' = Unfound(h)
    /\ pc' = [pc EXCEPT ![h] = "idle"]
    /\ UNCHANGED <<InviteRequest, InviteResponse, ID, state>>
    /\ UNCHANGED <<txVars, crashed, byeCtxDone, byeTx, byeRet, bye, rd, sent2xx>>
    /\ UNCHANGED cancelled

----------------------------------------------------------------------------
(* DialogServerSession.Close *)

\* Close with line 132 not commented out: it ends the dialog as well.
CloseEnds(h) ==
    /\ ~crashed
    /\ Created(h)
    /\ pc[h] = "idle"
    /\ dialogs' = Delete(ID[h])
    /\ deleted' = Deleted(h)
    /\ byeFound' = Unfound(h)
    /\ state' = setState(h, DialogStateEnded)
    /\ UNCHANGED <<InviteRequest, InviteResponse, ID>>
    /\ UNCHANGED <<txVars, crashed, appVars, rd, sent2xx>>
    /\ UNCHANGED cancelled

\* Line 131: delete the registry entry under the handle's current identity.
Close(h) ==
    /\ ~crashed
    /\ Created(h)
    /\ pc[h] = "idle"
    /\ dialogs' = Delete(ID[h])
    /\ deleted' = Deleted(h)
    /\ byeFound' = Unfound(h)
    /\ UNCHANGED <<InviteRequest, InviteResponse, ID, state>>
    /\ UNCHANGED <<txVars, crashed, appVars, rd, sent2xx>>
    /\ UNCHANGED cancelled

----------------------------------------------------------------------------
(* DialogServer.ReadAck *)

\* Lines 70-82: the identity of the ACK is computed and the handle looked
\* up.  ErrDialogOutsideDialog or ErrDialogDoesNotExists end the call.
ReadAck(req) ==
    /\ ~crashed
    /\ Busy < NumReaders
    /\ IF DialogIDFromRequestOK(req) /\ loadDialog(MakeDialogIDFromRequest(req)) # NoSession
       THEN rd' = Enter(loadDialog(MakeDialogIDFromRequest(req)), RdL84)
       ELSE UNCHANGED rd
    /\ UNCHANGED <<dialogVars, txVars, crashed, appVars, recVars>>
    /\ UNCHANGED cancelled

\* Line 84: the handle dt that was found becomes Confirmed.
ReadAckConfirm(dt) ==
    /\ ~crashed
    /\ rd[dt][RdL84] > 0
    /\ state' = setState(dt, DialogStateConfirmed)
    /\ rd' = Leave(dt, RdL84)
    /\ UNCHANGED <<dialogs, InviteRequest, InviteResponse, ID>>
    /\ UNCHANGED <<txVars, crashed, appVars, recVars>>
    /\ UNCHANGED cancelled

----------------------------------------------------------------------------
(* DialogServer.ReadBye *)

\* Lines 93-111: the identity of the BYE is computed and the handle looked
\* up.  An identity error or ErrDialogDoesNotExists end the call.
ReadBye(req) ==
    /\ ~crashed
    /\ Busy < NumReaders
    /\ IF DialogIDFromRequestOK(req) /\ loadDialog(MakeDialogIDFromRequest(req)) # NoSession
       THEN /\ rd' = Enter(loadDialog(MakeDialogIDFromRequest(req)), RdL113)
            /\ byeFound' = Found(loadDialog(MakeDialogIDFromRequest(req)),
                                 MakeDialogIDFromRequest(req))
       ELSE UNCHANGED <<rd, byeFound>>
    /\ UNCHANGED <<dialogVars, txVars, crashed, appVars, sent2xx, deleted>>
    /\ UNCHANGED cancelled

\* Lines 113-116: answer the BYE with 200 on its own transaction.
ReadByeRespond(dt) ==
    /\ ~crashed
    /\ rd[dt][RdL113] > 0
    /\ \/ rd' = Move(dt, RdL113, RdL118)
       \/ rd' = Move(dt, RdL113, RdD111Err)
    /\ UNCHANGED <<dialogVars, txVars, crashed, appVars, recVars>>
    /\ UNCHANGED cancelled

\* Lines 118-120
ReadByeEnded(dt) ==
    /\ ~crashed
    /\ rd[dt][RdL118] > 0
    /\ state' = setState(dt, DialogStateEnded)
    /\ rd' = Move(dt, RdL118, RdD111Nil)
    /\ UNCHANGED <<dialogs, InviteRequest, InviteResponse, ID>>
    /\ UNCHANGED <<txVars, crashed, appVars, recVars>>
    /\ UNCHANGED cancelled

\* What the router goroutine reads in Dialog.ID at line 131.  The read is
\* not synchronised with the write of line 202 by the application
\* goroutine: while that write is due, the read yields the old value, the
\* new one, or a torn one.  A write of the value Dialog.ID already holds
\* tears into that same value.
ReadID(dt) ==
    IF pc[dt] = "L202" /\ ID[dt] # MakeDialogIDFromResponse(InviteResponse[dt])
    THEN {ID[dt], MakeDialogIDFromResponse(InviteResponse[dt]), TornID}
    ELSE {ID[dt]}

\* The first deferred call to run, the one registered last:
\* dt.inviteTx.Terminate() of line 111.
ReadByeTerminate(dt, from) ==
    /\ ~crashed
    /\ from \in {RdD111Err, RdD111Nil}
    /\ rd[dt][from] > 0
    /\ txDone' = Terminate(dt)
    /\ txTerminated' = Terminated(dt)
    /\ rd' = Move(dt, from, IF from = RdD111Err THEN RdD110Err ELSE RdD110Nil)
    /\ UNCHANGED <<dialogVars, txCancels, crashed, appVars, recVars>>
    /\ UNCHANGED cancelled

\* The second deferred call: dt.Close() of line 110, which deletes the
\* key id it reads in Dialog.ID.  ReadBye returns the error of the place
\* it leaves.
ReadByeClose(dt, from, id) ==
    /\ ~crashed
    /\ from \in {RdD110Err, RdD110Nil}
    /\ rd[dt][from] > 0
    /\ id \in ReadID(dt)
    /\ dialogs' = Delete(id)
    /\ deleted' = [deleted EXCEPT ![dt] = @ \cup ({id} \cap DialogIDs)]
    /\ byeFound' = [byeFound EXCEPT ![dt] = @ \ {id}]
    /\ rd' = Leave(dt, from)
    /\ UNCHANGED <<InviteRequest, InviteResponse, ID, state>>
    /\ UNCHANGED <<txVars, crashed, appVars, sent2xx>>
    /\ UNCHANGED cancelled

----------------------------------------------------------------------------
(* Termination request *)

\* Lines 343-348: the loop over hdrs from its last entry (index i, counted
\* from 1 here) down to the first; each one is appended to the Route
\* headers the request has so far.
RECURSIVE AppendRoutes(_, _, _)
AppendRoutes(hdrs, i, route) ==
    IF i >= 1 THEN AppendRoutes(hdrs, i - 1, Append(route, hdrs[i]))
    ELSE route

\* newByeRequestUAS copying the Record-Route headers in the order received.
newByeRequestUASInOrder(req, res) ==
    [callID |-> res.callID, fromTag |-> res.toTag, toTag |-> res.fromTag,
     route |-> req.recordRoute]

\* newByeRequestUAS: the Call-ID is the response's; From is the To of the
\* response and To its From; a Route header for each Record-Route header
\* of the INVITE.
newByeRequestUAS(req, res) ==
    [callID |-> res.callID, fromTag |-> res.toTag, toTag |-> res.fromTag,
     route |-> AppendRoutes(req.recordRoute, Len(req.recordRoute), <<>>)]

\* Lines 260-263: the identity Bye computes from the request it built.
byeID(r) == MakeDialogID(r.callID, r.fromTag, r.toTag)

----------------------------------------------------------------------------
(* DialogServerSession.Bye *)

\* Lines 218-222: on an Ended dialog Bye returns nil at once.
ByeEnded(h) ==
    /\ ~crashed
    /\ Created(h)
    /\ pc[h] = "idle"
    /\ state[h] = DialogStateEnded
    /\ UNCHANGED vars

\* Lines 218-230: res.IsSuccess() on the nil response of a handle that
\* never wrote one dereferences nil, the goroutine panics; on a response
\* that is no success Bye returns an error.
ByeNoSuccess(h) ==
    /\ ~crashed
    /\ Created(h)
    /\ pc[h] = "idle"
    /\ state[h] # DialogStateEnded
    /\ InviteResponse[h] = NoResponse \/ ~IsSuccess(InviteResponse[h])
    /\ crashed' = (InviteResponse[h] = NoResponse)
    /\ UNCHANGED <<dialogVars, txVars, appVars, rd, recVars>>
    /\ UNCHANGED cancelled

\* Lines 218-234: the cleanup is deferred and the wait loop entered.
\* ctxDone: the caller's context is already cancelled.  The response read
\* at line 226 stays Dialog.InviteResponse for the whole call.
Bye(h, ctxDone) ==
    /\ ~crashed
    /\ Created(h)
    /\ pc[h] = "idle"
    /\ state[h] # DialogStateEnded
    /\ InviteResponse[h] # NoResponse
    /\ IsSuccess(InviteResponse[h])
    /\ byeCtxDone' = [byeCtxDone EXCEPT ![h] = ctxDone]
    /\ pc' = [pc EXCEPT ![h] = "L241"]
    /\ UNCHANGED <<dialogVars, txVars, crashed, byeTx, byeRet, bye, rd, recVars>>
    /\ UNCHANGED cancelled

\* Lines 241-242 and 254: the state is loaded; at Confirmed or above the
\* loop is left.
ByeLoadState(h) ==
    /\ ~crashed
    /\ pc[h] = "L241"
    /\ pc' = [pc EXCEPT ![h] =
                 IF state[h] < DialogStateConfirmed THEN "L243" ELSE "L257"]
    /\ UNCHANGED <<dialogVars, txVars, crashed, byeCtxDone, byeTx, byeRet, bye, rd, recVars>>
    /\ UNCHANGED cancelled

\* ByeSelect with a timer case that leaves the loop instead of going round.
ByeSelectTimerBreaks(h) ==
    /\ ~crashed
    /\ pc[h] = "L243"
    /\ \/ /\ txDone[h]
          /\ pc' = [pc EXCEPT ![h] = "L257"]
          /\ UNCHANGED byeRet
       \/ /\ ~txDone[h]
          /\ ~byeCtxDone[h]
          /\ pc' = [pc EXCEPT ![h] = "L257"]
          /\ UNCHANGED byeRet
       \/ /\ byeCtxDone[h]
          /\ byeRet' = [byeRet EXCEPT ![h] = "ctxErr"]
          /\ pc' = [pc EXCEPT ![h] = "D234"]
    /\ UNCHANGED <<dialogVars, txVars, crashed, byeCtxDone, byeTx, bye, rd, recVars>>
    /\ UNCHANGED cancelled

\* ByeSelect without the case of ctx.Done(): only the transaction and the
\* timer end the select.
ByeSelectNoCtx(h) ==
    /\ ~crashed
    /\ pc[h] = "L243"
    /\ \/ /\ txDone[h]
          /\ pc' = [pc EXCEPT ![h] = "L257"]
       \/ /\ ~txDone[h]
          /\ pc' = [pc EXCEPT ![h] = "L241"]
    /\ UNCHANGED <<dialogVars, txVars, crashed, byeCtxDone, byeTx, byeRet, bye, rd, recVars>>
    /\ UNCHANGED cancelled

\* Lines 243-251: the select.  A ready case is taken, any of them when
\* several are ready; the timer case is taken after T1 with none ready.
ByeSelect(h) ==
    /\ ~crashed
    /\ pc[h] = "L243"
    /\ \/ /\ txDone[h]
          /\ pc' = [pc EXCEPT ![h] = "L257"]
          /\ UNCHANGED byeRet
       \/ /\ ~txDone[h]
          /\ ~byeCtxDone[h]
          /\ pc' = [pc EXCEPT ![h] = "L241"]
          /\ UNCHANGED byeRet
       \/ /\ byeCtxDone[h]
          /\ byeRet' = [byeRet EXCEPT ![h] = "ctxErr"]
          /\ pc' = [pc EXCEPT ![h] = "D234"]
    /\ UNCHANGED <<dialogVars, txVars, crashed, byeCtxDone, byeTx, bye, rd, recVars>>
    /\ UNCHANGED cancelled

\* Lines 257-277: the BYE is built, its identity compared with Dialog.ID,
\* and the BYE handed to the client, which starts a transaction for it
\* (the BYE is sent) or fails.
ByeRequest(h) ==
    /\ ~crashed
    /\ pc[h] = "L257"
    /\ bye' = [bye EXCEPT ![h] = newByeRequestUAS(InviteRequest[h], InviteResponse[h])]
    /\ IF ID[h] # byeID(bye'[h])
       THEN /\ byeRet' = [byeRet EXCEPT ![h] = "errNonMatchingID"]
            /\ pc' = [pc EXCEPT ![h] = "D234"]
            /\ UNCHANGED byeTx
       ELSE \/ /\ byeTx' = [byeTx EXCEPT ![h] = TRUE]
               /\ pc' = [pc EXCEPT ![h] = "L282"]
               /\ UNCHANGED byeRet
            \/ /\ byeRet' = [byeRet EXCEPT ![h] = "requestErr"]
               /\ pc' = [pc EXCEPT ![h] = "D234"]
               /\ UNCHANGED byeTx
    /\ UNCHANGED <<dialogVars, txVars, crashed, byeCtxDone, rd, recVars>>
    /\ UNCHANGED cancelled

\* Lines 282-293: wait for the response to the BYE, the end of its
\* transaction, or the context.  On 200 the dialog is Ended.
ByeWait(h) ==
    /\ ~crashed
    /\ pc[h] = "L282"
    /\ pc' = [pc EXCEPT ![h] = "D234"]
    /\ \/ /\ state' = setState(h, DialogStateEnded)
          /\ byeRet' = [byeRet EXCEPT ![h] = "nil"]
       \/ /\ byeRet' = [byeRet EXCEPT ![h] = "ErrDialogResponse"]
          /\ UNCHANGED state
       \/ /\ byeRet' = [byeRet EXCEPT ![h] = "byeTxErr"]
          /\ UNCHANGED state
       \/ /\ byeCtxDone[h]
          /\ byeRet' = [byeRet EXCEPT ![h] = "ctxErr"]
          /\ UNCHANGED state
    /\ UNCHANGED <<dialogs, InviteRequest, InviteResponse, ID>>
    /\ UNCHANGED <<txVars, crashed, byeCtxDone, byeTx, bye, rd, recVars>>
    /\ UNCHANGED cancelled

\* The deferred calls, last registered first: tx.Terminate() of line 277
\* on the transaction of the BYE if there is one, s.inviteTx.Terminate()
\* of line 234, then s.Close() of line 233.  Bye returns byeRet.
ByeDeferred(h) ==
    /\ ~crashed
    /\ pc[h] = "D234"
    /\ txDone' = Terminate(h)
    /\ txTerminated' = Terminated(h)
    /\ dialogs' = Delete(ID[h])
    /\ deleted' = Deleted(h)
    /\ byeFound' = Unfound(h)
    /\ pc' = [pc EXCEPT ![h] = "idle"]
    /\ byeCtxDone' = [byeCtxDone EXCEPT ![h] = FALSE]
    /\ byeTx' = [byeTx EXCEPT ![h] = FALSE]
    /\ byeRet' = [byeRet EXCEPT ![h] = "none"]
    /\ bye' = [bye EXCEPT ![h] = NoBye]
    /\ UNCHANGED <<InviteRequest, InviteResponse, ID, state>>
    /\ UNCHANGED <<txCancels, crashed, rd, sent2xx>>
    /\ UNCHANGED cancelled

----------------------------------------------------------------------------
(* The peer, the transaction layer and the caller of Bye *)

\* A CANCEL for the INVITE arrives on inviteTx.Cancels().
RecvCancel(h) ==
    /\ ~crashed
    /\ Created(h)
    /\ ~txCancels[h]
    /\ ~txDone[h]
    /\ txCancels' = [txCancels EXCEPT ![h] = TRUE]
    /\ UNCHANGED <<dialogVars, txDone, txTerminated, crashed>>
    /\ UNCHANGED <<appVars, rd, recVars>>
    /\ UNCHANGED cancelled

\* The INVITE transaction ends by itself (a timer, a transport error).
TxDone(h) ==
    /\ ~crashed
    /\ Created(h)
    /\ ~txDone[h]
    /\ txDone' = [txDone EXCEPT ![h] = TRUE]
    /\ UNCHANGED <<dialogVars, txCancels, txTerminated, crashed>>
    /\ UNCHANGED <<appVars, rd, recVars>>
    /\ UNCHANGED cancelled

\* The context passed to a running Bye is cancelled.
CtxCancel(h) ==
    /\ ~crashed
    /\ pc[h] \in {"L241", "L243", "L257", "L282"}
    /\ ~byeCtxDone[h]
    /\ byeCtxDone' = [byeCtxDone EXCEPT ![h] = TRUE]
    /\ UNCHANGED <<dialogVars, txVars, crashed, pc, byeTx, byeRet, bye, rd, recVars>>
    /\ UNCHANGED cancelled

----------------------------------------------------------------------------
(* Specification *)

Next ==
    \/ \E h \in Handles, req \in InviteRequests : ReadInvite(h, req)
    \/ \E h \in Handles, res \in Responses : WriteResponseCanceled(h, res)
    \/ \E h \in Handles, res \in Responses : WriteResponseTxDone(h, res)
    \/ \E h \in Handles, res \in Responses : WriteResponseProvisional(h, res)
    \/ \E h \in Handles, res \in Responses : WriteResponseFailure(h, res)
    \/ \E h \in Handles : WriteResponseFailureSent(h)
    \/ \E h \in Handles, res \in Responses : WriteResponseSuccess(h, res)
    \/ \E h \in Handles : WriteResponseID(h)
    \/ \E h \in Handles : WriteResponseStore(h)
    \/ \E h \in Handles : WriteResponseEstablished(h)
    \/ \E h \in Handles : WriteResponseSend(h)
    \/ \E h \in Handles : WriteResponseDelete(h)
    \/ \E h \in Handles : Close(h)
    \/ \E req \in DialogRequests : ReadAck(req)
    \/ \E dt \in Handles : ReadAckConfirm(dt)
    \/ \E req \in DialogRequests : ReadBye(req)
    \/ \E dt \in Handles : ReadByeRespond(dt)
    \/ \E dt \in Handles : ReadByeEnded(dt)
    \/ \E dt \in Handles, from \in RdPlaces : ReadByeTerminate(dt, from)
    \/ \E dt \in Handles, from \in RdPlaces, id \in DialogIDs \cup {NoID, TornID} : ReadByeClose(dt, from, id)
    \/ \E h \in Handles : ByeEnded(h)
    \/ \E h \in Handles : ByeNoSuccess(h)
    \/ \E h \in Handles, c \in BOOLEAN : Bye(h, c)
    \/ \E h \in Handles : ByeLoadState(h)
    \/ \E h \in Handles : ByeSelect(h)
    \/ \E h \in Handles : ByeRequest(h)
    \/ \E h \in Handles : ByeWait(h)
    \/ \E h \in Handles : ByeDeferred(h)
    \/ \E h \in Handles : RecvCancel(h)
    \/ \E h \in Handles : TxDone(h)
    \/ \E h \in Handles : CtxCancel(h)

Spec == Init /\ [][Next]_vars

\* The goroutine that runs Bye is scheduled: it executes its next
\* statement, a select with a ready case takes one, and the last select
\* takes the case of ctx.Done() if no other case is taken before.  The
\* peer, the transaction layer and the other goroutines owe nothing.
ByeFairness ==
    \A h \in Handles :
        /\ WF_vars(ByeLoadState(h))
        /\ WF_vars(ByeSelect(h))
        /\ WF_vars(ByeRequest(h))
        /\ WF_vars(ByeWait(h) /\ byeRet'[h] = "ctxErr")
        /\ WF_vars(ByeDeferred(h))

SpecFair == Spec /\ ByeFairness

\* The requests built by Bye, for every list of Record-Route headers: the
\* states in which Bye is at line 257 on a Confirmed dialog, after
\* ReadInvite took an INVITE with Contact and the list rr, WriteResponse
\* sent 200 with the To tag t, and ReadAck took the ACK.
InitRoutes ==
    \E rr \in RecordRoutes(MaxRoutes), t \in Tags, c \in BOOLEAN :
        LET res == [StatusCode |-> StatusOK, callID |-> CallID,
                    fromTag |-> FromTag, toTag |-> t]
        IN  /\ dialogs = [id \in DialogIDs |->
                             IF id = MakeDialogIDFromResponse(res)
                             THEN CHOOSE h \in Handles : TRUE ELSE NoSession]
            /\ InviteRequest = [h \in Handles |->
                                   [callID |-> CallID, fromTag |-> FromTag,
                                    contact |-> TRUE, recordRoute |-> rr]]
            /\ InviteResponse = [h \in Handles |-> res]
            /\ ID = [h \in Handles |-> MakeDialogIDFromResponse(res)]
            /\ state = [h \in Handles |-> DialogStateConfirmed]
            /\ txCancels = [h \in Handles |-> FALSE]
            /\ txDone = [h \in Handles |-> FALSE]
            /\ txTerminated = [h \in Handles |-> 0]
            /\ cancelled = [h \in Handles |-> FALSE]
            /\ crashed = FALSE
            /\ pc = [h \in Handles |-> "L257"]
            /\ byeCtxDone = [h \in Handles |-> c]
            /\ byeTx = [h \in Handles |-> FALSE]
            /\ byeRet = [h \in Handles |-> "none"]
            /\ bye = [h \in Handles |-> NoBye]
            /\ rd = [h \in Handles |-> [r \in RdPlaces |-> 0]]
            /\ sent2xx = [h \in Handles |-> MakeDialogIDFromResponse(res)]
            /\ deleted = [h \in Handles |-> {}]
            /\ byeFound = [h \in Handles |-> {}]

NextRoutes ==
    \/ \E h \in Handles : ByeRequest(h)
    \/ \E h \in Handles : ByeWait(h)
    \/ \E h \in Handles : ByeDeferred(h)
    \/ \E h \in Handles : CtxCancel(h)

SpecRoutes == InitRoutes /\ [][NextRoutes]_vars

----------------------------------------------------------------------------
(* Properties *)

Registered(h) == \E id \in DialogIDs : dialogs[id] = h

\* No call is running on the handle: the application goroutine is between
\* calls and no router goroutine holds the handle.
Quiescent(h) == pc[h] = "idle" /\ \A r \in RdPlaces : rd[h][r] = 0

\* C1: a handle in the registry is Established or Confirmed, and an Ended
\* handle is not in the registry.  Stated for the states in which every
\* call on the handle has returned.
C1_RegisteredOnlyWhileLive ==
    \A h \in Handles :
        Quiescent(h) =>
            /\ Registered(h) =>
                   state[h] \in {DialogStateEstablished, DialogStateConfirmed}
            /\ state[h] = DialogStateEnded => ~Registered(h)

\* C2: a handle that is Established or Confirmed is in the registry under
\* its identity.  Stated for the states in which every call on the handle
\* has returned.
C2_LiveIsRegistered ==
    \A h \in Handles :
        Quiescent(h) /\ state[h] \in {DialogStateEstablished, DialogStateConfirmed} =>
            loadDialog(ID[h]) = h

\* C3: no step moves the state of a dialog backwards in the order
\* Init < Established < Confirmed < Ended.
C3_StateMonotonic ==
    [][\A h \in Handles : state'[h] >= state[h]]_vars

\* C4: once a handle has an identity, no step changes it.
C4_IdentityImmutable ==
    [][\A h \in Handles : ID[h] # NoID => ID'[h] = ID[h]]_vars

\* The application goroutine executes line 210 of WriteResponse.
WriteResponseDeleteStep(h) == pc[h] = "L210" /\ pc'[h] = "idle"

\* C5 as claimed: once the success response for an identity was sent with
\* a nil error, only Close, ReadBye or Bye take the handle out of the
\* registry under that identity; WriteResponse does not.
C5_OnlyCloseReadByeByeRemove ==
    [][\A h \in Handles :
           (/\ sent2xx[h] # NoID
            /\ dialogs[sent2xx[h]] = h
            /\ dialogs'[sent2xx[h]] # h) => ~WriteResponseDeleteStep(h)]_vars

\* The success response for id is being sent, or was sent with a nil error.
SendStarted(h, id) == (pc[h] = "L208" /\ ID[h] = id) \/ id = sent2xx[h]

\* C5 as amended: from the moment the send of the success response begins,
\* a lookup of its identity (the one ReadAck does) finds the handle, as
\* long as neither Close, ReadBye, Bye nor the failed send of a
\* WriteResponse has deleted the registry entry since the handle was last
\* stored under the identity.
C5_RegisteredBeforeSend ==
    \A h \in Handles : \A id \in DialogIDs :
        SendStarted(h, id) /\ id \notin deleted[h] => loadDialog(id) = h

\* The first success response is being sent, and a ReadAck running at the
\* same time has found the handle.
C5_Witness ==
    \E h \in Handles :
        /\ pc[h] = "L208"
        /\ sent2xx[h] = NoID
        /\ deleted[h] = {}
        /\ rd[h][RdL84] > 0

\* C6: when Bye hands the BYE to the client, and afterwards, the state has
\* reached Confirmed or the INVITE transaction is done.
C6_ByeAfterConfirmedOrDone ==
    \A h \in Handles :
        pc[h] \in {"L257", "L282"} =>
            state[h] >= DialogStateConfirmed \/ txDone[h]

\* A BYE was sent on a Confirmed dialog whose INVITE transaction still runs.
C6_Witness ==
    \E h \in Handles :
        pc[h] = "L282" /\ byeTx[h] /\ state[h] = DialogStateConfirmed /\ ~txDone[h]

\* Bye leaves the select of its wait loop by returning the context's
\* error, having sent no BYE in this call.
ByeReturnsCtxErr(h) ==
    pc'[h] = "D234" /\ byeRet'[h] = "ctxErr" /\ ~byeTx'[h]

\* C7: when the context is cancelled as Bye leaves the select of its
\* confirmation wait, Bye returns the context's error and has sent no
\* BYE, also when the INVITE transaction is done at the same time.
C7_CtxCancelledReturns ==
    [][\A h \in Handles :
           (pc[h] = "L243" /\ byeCtxDone[h] /\ pc'[h] # "L243") =>
               ByeReturnsCtxErr(h)]_vars

\* C8: a WriteResponse that writes a provisional response returns without
\* a change to the registry, to the state or to the identity.
C8_ProvisionalFrame ==
    [][\A h \in Handles :
           (InviteResponse'[h] # InviteResponse[h] /\ IsProvisional(InviteResponse'[h])) =>
               /\ dialogs' = dialogs
               /\ state'[h] = state[h]
               /\ ID'[h] = ID[h]
               /\ pc'[h] = "idle"]_vars

\* A provisional response was written, and nothing else: the handle is as
\* ReadInvite made it.
C8_Witness ==
    \E h \in Handles :
        /\ IsProvisional(InviteResponse[h])
        /\ pc[h] = "idle"
        /\ state[h] = DialogStateInit
        /\ ID[h] = NoID
        /\ ~Registered(h)

\* C9: a WriteResponse for a success response that takes a CANCEL from the
\* channel returns at once: the response is not sent, the registry, the
\* identity and the state stay as they were.
C9_CanceledFrame ==
    [][\A h \in Handles :
           (txCancels[h] /\ ~txCancels'[h] /\ IsSuccess(InviteResponse'[h])) =>
               /\ dialogs' = dialogs
               /\ ID'[h] = ID[h]
               /\ state'[h] = state[h]
               /\ sent2xx'[h] = sent2xx[h]
               /\ pc[h] = "idle"
               /\ pc'[h] = "idle"]_vars

\* The first WriteResponse, for a success response with a tag, has met a
\* CANCEL: the response is stored on the dialog and nothing else happened.
C9_Witness ==
    \E h \in Handles :
        /\ IsSuccess(InviteResponse[h])
        /\ InviteResponse[h].toTag # NoTag
        /\ pc[h] = "idle"
        /\ ~txCancels[h]
        /\ ~txDone[h]
        /\ state[h] = DialogStateInit
        /\ ID[h] = NoID
        /\ ~Registered(h)

\* C10: on a handle for which no success response was sent, Bye fails at
\* once: it does not enter its wait loop, whose cleanup deregisters the
\* handle and terminates the INVITE transaction, and it does not panic.
C10_ByeNeedsSentSuccess ==
    [][\A h \in Handles :
           (Created(h) /\ sent2xx[h] = NoID /\ pc[h] = "idle") =>
               (pc'[h] # "L241" /\ ~crashed')]_vars

\* C11: inviteTx.Terminate() is called at most once on the transaction of
\* a handle, whichever of ReadBye, Bye and Close run, one after another or
\* at the same time.
C11_TerminatedOnce ==
    \A h \in Handles : txTerminated[h] <= 1

\* A step of h.Close(): called by the application, or as the deferred
\* call of ReadBye or of Bye.
CloseStep(h) ==
    \/ Close(h)
    \/ ByeDeferred(h)
    \/ \E from \in RdPlaces, id \in ReadID(h) : ReadByeClose(h, from, id)

\* C12: when Close returns, called directly or through the cleanup of
\* ReadBye or Bye, the context of the dialog is done.
C12_CloseCancelsContext ==
    [][\A h \in Handles : CloseStep(h) => cancelled'[h]]_vars

\* The identities of the BYE requests that make ReadBye find a handle.
ReadByeFinds(req) ==
    /\ DialogIDFromRequestOK(req)
    /\ loadDialog(MakeDialogIDFromRequest(req)) # NoSession

\* C13: of the ReadBye calls for one identity, one after another or at the
\* same time, at most one finds the handle (and answers 200): a ReadBye
\* for an identity for which a ReadBye found the handle before finds none.
C13_OneReadByeFinds ==
    [][\A req \in DialogRequests :
           (ReadBye(req) /\ ReadByeFinds(req)) =>
               \A h \in Handles : MakeDialogIDFromRequest(req) \notin byeFound[h]]_vars

\* The handle was closed: Delete ran for its identity since it was last
\* stored under it, and no call runs on it.
Closed(h) == pc[h] = "idle" /\ ID[h] \in deleted[h]

\* The handle never was Established: no success response was processed.
NeverEstablished(h) == pc[h] = "idle" /\ state[h] = DialogStateInit

\* What a teardown call can touch: the registry, the state, the INVITE
\* transaction, a BYE sent.
TeardownFrame ==
    /\ dialogs' = dialogs
    /\ state' = state
    /\ txDone' = txDone
    /\ txTerminated' = txTerminated
    /\ byeTx' = byeTx
    /\ ~crashed'

\* C14: Close on a closed handle, Close on a handle that never was
\* Established, and Bye on an Ended handle change nothing: the registry,
\* the state and the INVITE transaction stay as they are and no BYE is
\* sent.  On an Ended handle Bye returns at once, without entering its
\* wait loop.
C14_TeardownIdempotent ==
    [][\A h \in Handles :
           /\ (Close(h) /\ (Closed(h) \/ NeverEstablished(h))) => TeardownFrame
           /\ (ByeEnded(h) => TeardownFrame /\ pc'[h] = "idle")
           /\ (Created(h) /\ pc[h] = "idle" /\ state[h] = DialogStateEnded) =>
                  pc'[h] # "L241"]_vars

\* A dialog whose success response was sent is Ended and its handle
\* closed: a second Close and a Bye can be called on it.
C14_Witness ==
    \E h \in Handles :
        /\ Closed(h)
        /\ sent2xx[h] = ID[h]
        /\ state[h] = DialogStateEnded
        /\ ~Registered(h)
        /\ txTerminated[h] = 1

\* C15: the request newByeRequestUAS builds from an INVITE with n
\* Record-Route headers has n Route headers, the i-th with the value of
\* the (n+1-i)-th Record-Route header.
C15_RoutesReversed ==
    \A h \in Handles :
        bye[h] # NoBye =>
            LET hdrs == InviteRequest[h].recordRoute
                n == Len(hdrs)
            IN  /\ Len(bye[h].route) = n
                /\ \A i \in 1..n : bye[h].route[i] = hdrs[n + 1 - i]

\* The BYE for an INVITE that carried R1, R2, R3 was built, with the Route
\* headers R3, R2, R1.
C15_Witness ==
    \E h \in Handles :
        /\ InviteRequest[h].recordRoute = <<"R1", "R2", "R3">>
        /\ bye[h] # NoBye
        /\ bye[h].route = <<"R3", "R2", "R1">>

\* A call on h returns the error of a failed send: WriteResponse after
\* the failed send of a success response, ReadBye after the failed send
\* of its 200, Bye after the client failed to send the BYE.
FailedSendReturns(h) ==
    \/ WriteResponseDelete(h)
    \/ \E id \in ReadID(h) : ReadByeClose(h, RdD110Err, id)
    \/ (ByeDeferred(h) /\ byeRet[h] = "requestErr")

\* C16: when WriteResponse, ReadBye or Bye returns the error of a failed
\* send, no registry entry refers to the handle.
C16_NoOrphanAfterFailedSend ==
    [][\A h \in Handles :
           FailedSendReturns(h) => \A id \in DialogIDs : dialogs'[id] # h]_vars

\* Bye is running: between its call and its return.
InBye(h) == pc[h] \in {"L241", "L243", "L257", "L282", "D234"}

\* C17: a Bye whose context is cancelled returns, whether it waits for the
\* confirmation or for the response to the BYE, and whether or not an ACK,
\* the end of the INVITE transaction or a response ever comes.
C17_ByeReturnsAfterCancel ==
    \A h \in Handles : (InBye(h) /\ byeCtxDone[h]) ~> (pc[h] = "idle")

\* Bye leaves its confirmation wait with the context's error: no ACK has
\* come and the INVITE transaction has not ended.
C17_Witness ==
    \E h \in Handles :
        /\ pc[h] = "D234"
        /\ byeRet[h] = "ctxErr"
        /\ ~byeTx[h]
        /\ state[h] = DialogStateEstablished
        /\ ~txDone[h]

\* C18: when Bye hands a BYE to the client, the dialog is not Ended: a
\* ReadBye that ended it while Bye was waiting makes Bye send none.
C18_NoByeOnceEnded ==
    [][\A h \in Handles :
           (~byeTx[h] /\ byeTx'[h]) => state[h] # DialogStateEnded]_vars

\* C19: every registry entry is under the identity of its handle, so a
\* handle is under one key at most.  Stated for the states in which no
\* WriteResponse is between assigning Dialog.ID and storing the handle.
C19_KeysAgreeWithIdentity ==
    \A id \in DialogIDs : \A h \in Handles :
        (dialogs[id] = h /\ pc[h] = "idle") => ID[h] = id

\* Bye returns the context's error from its confirmation wait: its
\* deferred calls run, and no BYE was built.
ByeReturnsFromWait(h) ==
    ByeDeferred(h) /\ byeRet[h] = "ctxErr" /\ ~byeTx[h]

\* C20: when Bye returns the context's error from its confirmation wait,
\* no registry entry refers to the handle, the INVITE transaction is
\* terminated, and the state is as Bye found it.  (That the state is
\* still below Confirmed is left out: an ACK read during the wait
\* confirms the dialog.)
C20_CleanupOnCtxErr ==
    [][\A h \in Handles :
           ByeReturnsFromWait(h) =>
               /\ \A id \in DialogIDs : dialogs'[id] # h
               /\ txDone'[h]
               /\ txTerminated'[h] >= 1
               /\ state'[h] = state[h]]_vars

=============================================================================
